---- MODULE Spec2Model ----
(***************************************************************************)
(* Model of index.js: an Express server with two payment webhooks          *)
(* (LemonSqueezy, NOWPayments).  Each webhook authenticates the request    *)
(* with an HMAC over the captured raw body, classifies the event, extracts *)
(* the order and mails the owner (and optionally the buyer).               *)
(*                                                                         *)
(* JavaScript values are records tagged by t.  Strings the code inspects   *)
(* character by character are sequences of one-character strings.  HMAC    *)
(* digests are symbolic (an ideal keyed hash: two digests are equal iff    *)
(* algorithm, key and message are equal); a hex string carries its length  *)
(* because crypto.timingSafeEqual depends on it.                           *)
(***************************************************************************)
EXTENDS Integers, Sequences, FiniteSets, TLC

(* ------------------------------ bounds --------------------------------- *)
\* number of requests the process serves in a behaviour
MaxRequests == 2

(* --------------------------- JavaScript values -------------------------- *)
Undef == [t |-> "undefined"]
Null == [t |-> "null"]
Str(s) == [t |-> "string", s |-> s]
\* a number n/d (d > 0), kept in lowest terms by Div
Num(n) == [t |-> "number", n |-> n, d |-> 1]
NaN == [t |-> "number", n |-> 0, d |-> 0]
Obj(f) == [t |-> "object", f |-> f]
\* an object literal: fields whose value is Undef are absent
Rec(r) == Obj([k \in {j \in DOMAIN r : r[j] # Undef} |-> r[k]])

\* length of a string in UTF-8 bytes (all modelled strings are ASCII)
StrLen(v) == IF "s" \in DOMAIN v THEN Len(v.s) ELSE v.len

\* ToBoolean
Truthy(v) ==
  CASE v.t = "undefined" -> FALSE
    [] v.t = "null" -> FALSE
    [] v.t = "string" -> StrLen(v) > 0
    [] v.t = "number" -> v.n # 0
    [] OTHER -> TRUE

\* a || b
Or(a, b) == IF Truthy(a) THEN a ELSE b

\* a ?? b
Nullish(a, b) == IF a.t \in {"undefined", "null"} THEN b ELSE a

\* o?.k for the property names the handlers read (none of them exists on a
\* primitive wrapper or on Object.prototype)
Get(o, k) == IF o.t = "object" /\ k \in DOMAIN o.f THEN o.f[k] ELSE Undef

RECURSIVE Gcd(_, _)
Gcd(a, b) == IF b = 0 THEN a ELSE Gcd(b, a % b)

\* x / y for a non-negative rational x and a positive integer y
Div(x, y) ==
  LET n == x.n
      d == x.d * y
      g == Gcd(n, d)
  IN  IF x.d = 0 THEN NaN
      ELSE IF n = 0 THEN [t |-> "number", n |-> 0, d |-> 1]
      ELSE [t |-> "number", n |-> n \div g, d |-> d \div g]

\* ToNumber(v) / 100 as computed by  (attributes?.total ?? 0) / 100
DivBy100(v) ==
  CASE v.t = "number" -> Div(v, 100)
    [] v.t = "null" -> Div(Num(0), 100)
    [] OTHER -> NaN

(* ------------------------------ strings --------------------------------- *)
sOrderCreated == Str(<<"o","r","d","e","r","_","c","r","e","a","t","e","d">>)
sSubscriptionPaymentSuccess ==
  Str(<<"s","u","b","s","c","r","i","p","t","i","o","n","_",
        "p","a","y","m","e","n","t","_","s","u","c","c","e","s","s">>)
sFinished == Str(<<"f","i","n","i","s","h","e","d">>)
sUSD == Str(<<"U","S","D">>)
sUnknown == Str(<<"u","n","k","n","o","w","n">>)
sTrue == Str(<<"t","r","u","e">>)

LowerOf ==
  [A |-> "a", E |-> "e", I |-> "i", P |-> "p", T |-> "t", Y |-> "y"]
\* String.prototype.toLowerCase on one character
Lower(c) == IF c \in DOMAIN LowerOf THEN LowerOf[c] ELSE c
LowerSeq(s) == [i \in 1..Len(s) |-> Lower(s[i])]

\* \w of the regular expressions, over the characters the model uses
WordChars ==
  {"a","b","c","d","e","i","m","l","p","t","x","y","A","E","I","P","T","Y",
   "0","1","2","_"}
\* \s
SpaceChars == {" ", "\t", "\n"}

NonSpace(c) == c \notin SpaceChars

\* /\S+@\S+\.\S+/.test(s) for a character sequence s (unanchored)
EmailShape(s) ==
  \E p \in 2..Len(s) : \E q \in (p + 2)..(Len(s) - 1) :
    /\ NonSpace(s[p - 1])
    /\ s[p] = "@"
    /\ \A i \in (p + 1)..(q - 1) : NonSpace(s[i])
    /\ s[q] = "."
    /\ NonSpace(s[q + 1])

\* RegExp.prototype.test coerces its argument to a string; the non-string
\* buyer emails of the model (numbers) never contain "@"
EmailTest(v) == IF v.t = "string" THEN EmailShape(v.s) ELSE FALSE

\* s.match(/type=(\w+)/i): the positions where the token can start
TypeStarts(s) ==
  {i \in 1..(Len(s) - 5) :
     /\ LowerSeq(SubSeq(s, i, i + 4)) = <<"t","y","p","e","=">>
     /\ s[i + 5] \in WordChars}

Min(S) == CHOOSE x \in S : \A y \in S : x <= y
Max(S) == CHOOSE x \in S : \A y \in S : x >= y

\* m[1].toLowerCase() of the leftmost match, the group taken greedily
TypeCapture(s) ==
  LET i == Min(TypeStarts(s))
      e == Max({j \in (i + 5)..Len(s) :
                  \A k \in (i + 5)..j : s[k] \in WordChars})
  IN  Str(LowerSeq(SubSeq(s, i + 5, e)))

(* --------------------------- raw body capture --------------------------- *)
\* The request body as sent: enc says whether the bytes are valid UTF-8
\* ("utf8"), contain an invalid sequence ("invalid"), or are valid UTF-8
\* containing U+FFFD where "invalid" has its bad bytes ("replaced");
\* doc is the document the bytes spell.
Bytes(enc, doc) == [enc |-> enc, doc |-> doc]
BufLength(buf) == IF buf.doc.kind \in {"absent", "empty"} THEN 0 ELSE 1

\* buf.toString("utf8"): invalid sequences become U+FFFD
ToStringUtf8(buf) ==
  [t |-> "string", len |-> BufLength(buf),
   repl |-> buf.enc # "utf8", doc |-> buf.doc]

\* the bytes hmac.update(raw, "utf8") hashes
Utf8Bytes(raw) ==
  Bytes(IF raw.repl THEN "replaced" ELSE "utf8", raw.doc)

\* if (buf && buf.length) req.rawBody = buf.toString("utf8")
rawBodySaver(buf) ==
  IF buf.doc.kind # "absent" /\ BufLength(buf) # 0
  THEN ToStringUtf8(buf) ELSE Undef

(* ------------------------------- crypto --------------------------------- *)
\* hex characters of a digest
Sha256HexLen == 64
Sha512HexLen == 128
HexLen(alg) == IF alg = "sha256" THEN Sha256HexLen ELSE Sha512HexLen

\* crypto.createHmac(alg, key).update(msg)
Hmac(alg, key, msg) == [alg |-> alg, key |-> key, msg |-> msg]

\* .digest("hex"): lowercase hex
HexDigest(h) ==
  [t |-> "string", len |-> HexLen(h.alg), of |-> [form |-> "lower", h |-> h]]

\* crypto.timingSafeEqual(Buffer.from(a), Buffer.from(b)): throws a
\* RangeError when the byte lengths differ
timingSafeEqual(a, b) ==
  IF StrLen(a) # StrLen(b) THEN "RangeError"
  ELSE IF a = b THEN "true" ELSE "false"


\* variant: the digest is computed with the other route's algorithm
verifyLemonSignatureSha512(raw, header, secret) ==
  IF ~Truthy(raw) \/ ~Truthy(header) \/ ~Truthy(secret) THEN "false"
  ELSE timingSafeEqual(header, HexDigest(Hmac("sha512", secret, Utf8Bytes(raw))))

verifyLemonSignature(raw, header, secret) ==
  IF ~Truthy(raw) \/ ~Truthy(header) \/ ~Truthy(secret) THEN "false"
  ELSE timingSafeEqual(header, HexDigest(Hmac("sha256", secret, Utf8Bytes(raw))))


\* variant: an unconfigured secret switches verification off
verifyNowPaymentsSignatureSkipsUnset(raw, header, secret) ==
  IF ~Truthy(secret) THEN "true"
  ELSE IF ~Truthy(raw) \/ ~Truthy(header) THEN "false"
  ELSE timingSafeEqual(header, HexDigest(Hmac("sha512", secret, Utf8Bytes(raw))))

verifyNowPaymentsSignature(raw, header, secret) ==
  IF ~Truthy(raw) \/ ~Truthy(header) \/ ~Truthy(secret) THEN "false"
  ELSE timingSafeEqual(header, HexDigest(Hmac("sha512", secret, Utf8Bytes(raw))))

(* ------------------------- parse and extraction ------------------------- *)
\* JSON.parse(req.rawBody || "{}"): the value, or a SyntaxError
JSONparse(raw) ==
  LET text == IF Truthy(raw) THEN raw.doc ELSE [kind |-> "json", val |-> Obj(<<>>)]
  IN  IF text.kind = "json" THEN [ok |-> TRUE, val |-> text.val]
      ELSE [ok |-> FALSE, val |-> Undef]


\* variant: the top-level event field takes precedence
lemonEventTypeSwapped(evt) == Or(Get(evt, "event"), Get(Get(evt, "meta"), "event_name"))

\* evt?.meta?.event_name || evt?.event
lemonEventType(evt) == Or(Get(Get(evt, "meta"), "event_name"), Get(evt, "event"))

lemonIsSuccess(evt) ==
  lemonEventType(evt) \in {sOrderCreated, sSubscriptionPaymentSuccess}


\* variant: the total is divided without the ?? 0 default
lemonExtractNoDefault(evt) ==
  LET data == Or(Get(evt, "data"), Obj(<<>>))
      attributes == Or(Get(data, "attributes"), Obj(<<>>))
  IN  [buyerEmail |-> Or(Or(Get(attributes, "user_email"),
                            Get(attributes, "customer_email")), Null),
       websiteType |-> Or(Or(Get(Get(attributes, "custom"), "websiteType"),
                             Get(Get(Get(evt, "meta"), "custom_data"), "websiteType")),
                          sUnknown),
       amount |-> DivBy100(Get(attributes, "total")),
       currency |-> Or(Get(attributes, "currency"), sUSD),
       raw |-> evt]

lemonExtract(evt) ==
  LET data == Or(Get(evt, "data"), Obj(<<>>))
      attributes == Or(Get(data, "attributes"), Obj(<<>>))
  IN  [buyerEmail |-> Or(Or(Get(attributes, "user_email"),
                            Get(attributes, "customer_email")), Null),
       websiteType |-> Or(Or(Get(Get(attributes, "custom"), "websiteType"),
                             Get(Get(Get(evt, "meta"), "custom_data"), "websiteType")),
                          sUnknown),
       amount |-> DivBy100(Nullish(Get(attributes, "total"), Num(0))),
       currency |-> Or(Get(attributes, "currency"), sUSD),
       raw |-> evt]

nowIsSuccess(evt) == Get(evt, "payment_status") = sFinished

nowExtract(evt) ==
  LET desc == Get(evt, "order_description")
  IN  [buyerEmail |-> Or(Get(evt, "customer_email"), Null),
       websiteType |-> IF desc.t = "string" /\ TypeStarts(desc.s) # {}
                       THEN TypeCapture(desc.s) ELSE sUnknown,
       amount |-> Get(evt, "price_amount"),
       currency |-> Or(Get(evt, "price_currency"), sUSD),
       raw |-> evt]

(* ------------------------------ universe -------------------------------- *)
K1 == Str(<<"k","1">>)
K2 == Str(<<"k","2">>)
sOwner == Str(<<"m","e","@","x",".","i","o">>)
sEmpty == Str(<<>>)
sEUR == Str(<<"E","U","R">>)
sAi == Str(<<"a","i">>)
sSimple == Str(<<"s","i","m","p","l","e">>)
sRefunded == Str(<<"o","r","d","e","r","_","r","e","f","u","n","d","e","d">>)
sWaiting == Str(<<"w","a","i","t","i","n","g">>)
sFINISHED == Str(<<"F","I","N","I","S","H","E","D">>)
sTRUE == Str(<<"T","R","U","E">>)
\* buyer addresses: the first two have the shape, the others do not
sBuyer == Str(<<"a","@","b",".","c">>)
sBuyerSp == Str(<<"x"," ","a","@","b",".","c">>)
sNoDot == Str(<<"a","@","b">>)
sNoUser == Str(<<"@","b",".","c">>)
sGap == Str(<<"a","@"," ","b",".","c">>)
\* order descriptions
sDescAI == Str(<<"t","y","p","e","=","A","I",";","e","=","x","@","y">>)
sDescUpper == Str(<<"x",";","T","Y","P","E","=","a","i","_","2"," ","t","y","p","e","=","b">>)
sDescNoWord == Str(<<"t","y","p","e","=",";","a","i">>)
sDescNoToken == Str(<<"a","i"," ","s","i","t","e">>)

\* process.env, read-only after start
\* the two provider secrets: unset, empty, equal, different
SecretPairs == {<<Undef, sEmpty>>, <<sEmpty, Undef>>, <<K1, K1>>, <<K1, K2>>}

\* OWNER_EMAIL and SEND_BUYER_CONFIRMATION
MailSettings ==
  {<<Undef, sTrue>>, <<sOwner, Undef>>, <<sOwner, sTrue>>, <<sOwner, sTRUE>>}

\* process.env, read-only after start
Envs ==
  {[LEMONSQUEEZY_SIGNING_SECRET |-> p[1],
    NOWPAYMENTS_IPN_SECRET |-> p[2],
    OWNER_EMAIL |-> m[1],
    SEND_BUYER_CONFIRMATION |-> m[2]] :
     p \in SecretPairs, m \in MailSettings}

Routes == {"lemonsqueezy", "nowpayments"}

Json(v) == [kind |-> "json", val |-> v]
NoDoc(kind) == [kind |-> kind, val |-> Undef]

\* LemonSqueezy payloads: event names over a fixed order ...
LemonNamed ==
  {Rec([meta |-> Rec([event_name |-> n, custom_data |-> Undef]),
        event |-> e,
        data |-> Rec([attributes |-> Rec([customer_email |-> sBuyer])])]) :
     n \in {Undef, sEmpty, sOrderCreated, sSubscriptionPaymentSuccess, sRefunded},
     e \in {Undef, sOrderCreated, sRefunded}}
        \cup {Rec([event |-> sOrderCreated]),
              Rec([meta |-> sOrderCreated, event |-> sSubscriptionPaymentSuccess])}

\* ... and orders with every subset of the optional fields
LemonOrders ==
  {Rec([meta |-> Rec([event_name |-> sOrderCreated, custom_data |-> cd]),
        data |-> Rec([attributes |-> Rec([user_email |-> ue, customer_email |-> ce,
                                          currency |-> cur, total |-> tot,
                                          custom |-> cu])])]) :
     cd \in {Undef, Rec([websiteType |-> sSimple])},
     ue \in {Undef, sNoDot},
     ce \in {Undef, sBuyer},
     cur \in {Undef, sEUR},
     tot \in {Undef, Num(5000)},
     cu \in {Undef, Rec([websiteType |-> sAi])}}
  \cup
  {Rec([meta |-> Rec([event_name |-> sSubscriptionPaymentSuccess]), data |-> d]) :
     d \in {Undef, Null, Obj(<<>>), Rec([attributes |-> Null]),
            Rec([attributes |-> Rec([total |-> Null, custom |-> Obj(<<>>)])]),
            Rec([attributes |-> Rec([total |-> Num(1999), user_email |-> sBuyerSp])]),
            Rec([attributes |-> Rec([total |-> Num(0), user_email |-> sNoUser])]),
            Rec([attributes |-> Rec([total |-> sAi, user_email |-> sGap])]),
            Rec([attributes |-> Rec([user_email |-> Num(7)])])}}

NowNamed ==
  {Rec([payment_status |-> st, customer_email |-> sNoDot,
        price_amount |-> Div(Num(1999), 100)]) :
     st \in {Undef, sEmpty, sWaiting, sFINISHED, sFinished}}

NowOrders ==
  {Rec([payment_status |-> sFinished, customer_email |-> ce, price_amount |-> amt,
        price_currency |-> cur, order_description |-> desc]) :
     ce \in {Undef, sBuyer},
     amt \in {Undef, Num(25)},
     cur \in {Undef, sEUR},
     desc \in {Undef, sDescAI}}
  \cup
  {Rec([payment_status |-> sFinished, order_description |-> desc]) :
     desc \in {sDescUpper, sDescNoWord, sDescNoToken, Num(7)}}

\* documents that are no provider's payload
OtherDocs == {Json(Null), Json(Num(7)), NoDoc("malformed")}

Docs(r) ==
  OtherDocs \cup
  {Json(v) : v \in IF r = "lemonsqueezy" THEN LemonNamed \cup LemonOrders
                   ELSE NowNamed \cup NowOrders}

\* request bodies on route r
Bodies(r) ==
  {Bytes("utf8", d) : d \in Docs(r) \cup {NoDoc("absent"), NoDoc("empty")}}
  \cup {Bytes(e, Json(v)) : e \in {"invalid", "replaced"},
                            v \in IF r = "lemonsqueezy"
                                  THEN {Rec([event |-> sOrderCreated])}
                                  ELSE {Rec([payment_status |-> sFinished])}}

AlgOf(r) == IF r = "lemonsqueezy" THEN "sha256" ELSE "sha512"

\* a string of len characters that is no lowercase hex digest: form "upper"
\* is the digest h in upper case, form "junk" is anything else
OtherHex(len, form, h) ==
  [t |-> "string", len |-> len, of |-> [form |-> form, h |-> h]]
NoHmac == Hmac("none", sEmpty, Bytes("utf8", NoDoc("empty")))

\* the key the provider of route r signs with
ProviderKey(r) == IF r = "lemonsqueezy" THEN K1 ELSE K2

OtherAlg(a) == IF a = "sha256" THEN "sha512" ELSE "sha256"

\* signature headers a client can send with body buf on route r
Headers(r, buf) ==
  {Undef, OtherHex(0, "junk", NoHmac),
   OtherHex(Sha256HexLen, "junk", NoHmac), OtherHex(Sha512HexLen, "junk", NoHmac),
   HexDigest(Hmac(AlgOf(r), K1, buf)),
   HexDigest(Hmac(AlgOf(r), K2, buf)),
   HexDigest(Hmac(OtherAlg(AlgOf(r)), K1, buf)),
   HexDigest(Hmac(AlgOf(r), K1, Utf8Bytes(ToStringUtf8(buf)))),
   HexDigest(Hmac(AlgOf(r), K1, Bytes("utf8", Json(Null)))),
   OtherHex(HexLen(AlgOf(r)), "upper", Hmac(AlgOf(r), K1, buf))}

(* -------------------------------- state --------------------------------- *)
VARIABLES
  env,          \* process.env
  served,       \* requests received so far
  pc,           \* where the request in flight stands
  route,        \* the webhook it was posted to
  buf,          \* its body as sent
  sig,          \* its signature header (x-signature / x-nowpayments-sig)
  rawBody,      \* req.rawBody
  verdict,      \* what the verifier did: "none", "true", "false", "RangeError"
  evt,          \* the parsed event
  order,        \* the argument of notifyOrder
  notifyCalls,  \* calls of notifyOrder
  mails,        \* transporter.sendMail calls, in order
  responses,    \* statuses sent on res, in order
  trace,        \* the steps of the request, in order
  uncaught      \* an exception left the handler

vars == <<env, served, pc, route, buf, sig, rawBody, verdict, evt, order,
          notifyCalls, mails, responses, trace, uncaught>>

NoOrder ==
  [buyerEmail |-> Undef, websiteType |-> Undef, amount |-> Undef,
   currency |-> Undef, raw |-> Undef]

Init ==
  /\ env \in Envs
  /\ served = 0
  /\ pc = "idle"
  /\ route = "lemonsqueezy"
  /\ buf = Bytes("utf8", NoDoc("absent"))
  /\ sig = Undef
  /\ rawBody = Undef
  /\ verdict = "none"
  /\ evt = Undef
  /\ order = NoOrder
  /\ notifyCalls = 0
  /\ mails = <<>>
  /\ responses = <<>>
  /\ trace = <<>>
  /\ uncaught = FALSE

\* A POST to /webhook/<r> arrives; express.raw reads the body and calls
\* rawBodySaver, then the route handler is entered.
Receive(r, b, h) ==
  /\ pc = "idle"
  /\ served < MaxRequests
  /\ served' = served + 1
  /\ pc' = "handler"
  /\ route' = r
  /\ buf' = b
  /\ sig' = h
  /\ rawBody' = rawBodySaver(b)
  /\ verdict' = "none"
  /\ evt' = Undef
  /\ order' = NoOrder
  /\ notifyCalls' = 0
  /\ mails' = <<>>
  /\ responses' = <<>>
  /\ trace' = <<>>
  /\ uncaught' = FALSE
  /\ UNCHANGED env

\* the outcome of the synchronous part of a handler
Outcome(v, e, o, calls, m, status, threw, tr) ==
  [verdict |-> v, evt |-> e, order |-> o, calls |-> calls, mails |-> m,
   status |-> status, threw |-> threw, trace |-> tr]


\* variant: the owner mail is started but not awaited
notifyOrderNoAwait(o, e, tr) ==
  IF ~Truthy(env.OWNER_EMAIL)
  THEN Outcome("true", e, o, 1, <<>>, 0, TRUE, tr \o <<"notify">>)
  ELSE Outcome("true", e, o, 1,
               <<[kind |-> "owner", to |-> env.OWNER_EMAIL, state |-> "pending"]>>,
               200, FALSE, tr \o <<"notify", "sendOwner", "respond">>)

\* notifyOrder up to its first await: throws when OWNER_EMAIL is not set,
\* otherwise starts the owner mail
notifyOrder(o, e, tr) ==
  IF ~Truthy(env.OWNER_EMAIL)
  THEN Outcome("true", e, o, 1, <<>>, 0, TRUE, tr \o <<"notify">>)
  ELSE Outcome("true", e, o, 1,
               <<[kind |-> "owner", to |-> env.OWNER_EMAIL, state |-> "pending"]>>,
               0, FALSE, tr \o <<"notify", "sendOwner">>)

\* the try block of the LemonSqueezy handler up to its first await
lemonTryBlock(v) ==
  IF v = "RangeError"
  THEN Outcome(v, Undef, NoOrder, 0, <<>>, 0, TRUE, <<"verify">>)
  ELSE IF v = "false"
  THEN Outcome(v, Undef, NoOrder, 0, <<>>, 400, FALSE, <<"verify", "respond">>)
  ELSE LET p == JSONparse(rawBody)
       IN  IF ~p.ok
           THEN Outcome(v, Undef, NoOrder, 0, <<>>, 0, TRUE, <<"verify", "parse">>)
           ELSE IF lemonIsSuccess(p.val)
           THEN notifyOrder(lemonExtract(p.val), p.val,
                            <<"verify", "parse", "classify", "extract">>)
           ELSE Outcome(v, p.val, NoOrder, 0, <<>>, 200, FALSE,
                        <<"verify", "parse", "classify", "respond">>)

\* the try block of the NOWPayments handler up to its first await
nowTryBlock(v) ==
  IF v = "RangeError"
  THEN Outcome(v, Undef, NoOrder, 0, <<>>, 0, TRUE, <<"verify">>)
  ELSE IF v = "false"
  THEN Outcome(v, Undef, NoOrder, 0, <<>>, 400, FALSE, <<"verify", "respond">>)
  ELSE LET p == JSONparse(rawBody)
       IN  IF ~p.ok
           THEN Outcome(v, Undef, NoOrder, 0, <<>>, 0, TRUE, <<"verify", "parse">>)
           ELSE IF nowIsSuccess(p.val)
           THEN notifyOrder(nowExtract(p.val), p.val,
                            <<"verify", "parse", "classify", "extract">>)
           ELSE Outcome(v, p.val, NoOrder, 0, <<>>, 200, FALSE,
                        <<"verify", "parse", "classify", "respond">>)

\* variant: the handler has no catch clause
catchBlockMissing(o) == o

\* catch (e) { console.error(...); res.status(500).send("server error") }
catchBlock(o) ==
  IF o.threw
  THEN [o EXCEPT !.status = 500, !.threw = FALSE,
                 !.trace = @ \o <<"catch", "respond">>]
  ELSE o

\* the state after a handler ran until it returned or suspended
Settle(o) ==
  /\ verdict' = o.verdict
  /\ evt' = o.evt
  /\ order' = o.order
  /\ notifyCalls' = o.calls
  /\ mails' = o.mails
  /\ responses' = IF o.status # 0 THEN responses \o <<o.status>> ELSE responses
  /\ trace' = o.trace
  /\ uncaught' = o.threw
  /\ pc' = IF o.status # 0 \/ o.threw THEN "done" ELSE "awaitOwner"
  /\ UNCHANGED <<env, served, route, buf, sig, rawBody>>

\* app.post("/webhook/lemonsqueezy", ...)
LemonHandler ==
  /\ pc = "handler"
  /\ route = "lemonsqueezy"
  /\ \E v \in {verifyLemonSignature(rawBody, sig, env.LEMONSQUEEZY_SIGNING_SECRET)} :
       \E o \in {catchBlock(lemonTryBlock(v))} : Settle(o)

\* app.post("/webhook/nowpayments", ...)
NowPaymentsHandler ==
  /\ pc = "handler"
  /\ route = "nowpayments"
  /\ \E v \in {verifyNowPaymentsSignature(rawBody, sig, env.NOWPAYMENTS_IPN_SECRET)} :
       \E o \in {catchBlock(nowTryBlock(v))} : Settle(o)


\* variant: the confirmation does not depend on the flag
wantsBuyerMailIgnoresFlag(o) ==
  /\ Truthy(o.buyerEmail)
  /\ EmailTest(o.buyerEmail)

\* buyerEmail && /\S+@\S+\.\S+/.test(buyerEmail) &&
\* process.env.SEND_BUYER_CONFIRMATION === "true"
wantsBuyerMail(o) ==
  /\ Truthy(o.buyerEmail)
  /\ EmailTest(o.buyerEmail)
  /\ env.SEND_BUYER_CONFIRMATION = sTrue


\* variant: a failed buyer confirmation is only logged
ResumeLogsBuyerFailure(i, ok, more) ==
  /\ mails' = IF more
              THEN [mails EXCEPT ![i].state = "sent"]
                     \o <<[kind |-> "buyer", to |-> order.buyerEmail, state |-> "pending"]>>
              ELSE [mails EXCEPT ![i].state = IF ok THEN "sent" ELSE "failed"]
  /\ \E who \in {mails[i].kind} : \E o \in {catchBlock(
                IF ~ok /\ i = 1
                THEN Outcome(verdict, evt, order, notifyCalls, <<>>, 0, TRUE,
                             trace \o <<who \o "Failed">>)
                ELSE IF more
                THEN Outcome(verdict, evt, order, notifyCalls, <<>>, 0, FALSE,
                             trace \o <<who \o "Sent", "sendBuyer">>)
                ELSE Outcome(verdict, evt, order, notifyCalls, <<>>, 200, FALSE,
                             trace \o <<who \o (IF ok THEN "Sent" ELSE "Failed"),
                                        "respond">>))} :
         /\ responses' = IF o.status # 0 THEN responses \o <<o.status>> ELSE responses
         /\ trace' = o.trace
         /\ uncaught' = o.threw
         /\ pc' = IF o.status # 0 \/ o.threw THEN "done" ELSE "awaitBuyer"
  /\ UNCHANGED <<env, served, route, buf, sig, rawBody, verdict, evt, order,
                 notifyCalls>>

\* the handler resumes after a mail settled: ok says whether sendMail
\* resolved; more says whether notifyOrder goes on to another mail
Resume(i, ok, more) ==
  /\ mails' = IF more
              THEN [mails EXCEPT ![i].state = "sent"]
                     \o <<[kind |-> "buyer", to |-> order.buyerEmail, state |-> "pending"]>>
              ELSE [mails EXCEPT ![i].state = IF ok THEN "sent" ELSE "failed"]
  /\ \E who \in {mails[i].kind} : \E o \in {catchBlock(
                IF ~ok THEN Outcome(verdict, evt, order, notifyCalls, <<>>, 0, TRUE,
                                    trace \o <<who \o "Failed">>)
                ELSE IF more
                THEN Outcome(verdict, evt, order, notifyCalls, <<>>, 0, FALSE,
                             trace \o <<who \o "Sent", "sendBuyer">>)
                ELSE Outcome(verdict, evt, order, notifyCalls, <<>>, 200, FALSE,
                             trace \o <<who \o "Sent", "respond">>))} :
         /\ responses' = IF o.status # 0 THEN responses \o <<o.status>> ELSE responses
         /\ trace' = o.trace
         /\ uncaught' = o.threw
         /\ pc' = IF o.status # 0 \/ o.threw THEN "done" ELSE "awaitBuyer"
  /\ UNCHANGED <<env, served, route, buf, sig, rawBody, verdict, evt, order,
                 notifyCalls>>

\* await transporter.sendMail({to: ownerEmail, ...}) resolves
OwnerMailResolves ==
  /\ pc = "awaitOwner"
  /\ Resume(1, TRUE, wantsBuyerMail(order))

\* ... or rejects
OwnerMailRejects ==
  /\ pc = "awaitOwner"
  /\ Resume(1, FALSE, FALSE)

\* await transporter.sendMail({to: buyerEmail, ...}) resolves
BuyerMailResolves ==
  /\ pc = "awaitBuyer"
  /\ Resume(2, TRUE, FALSE)

\* ... or rejects
BuyerMailRejects ==
  /\ pc = "awaitBuyer"
  /\ Resume(2, FALSE, FALSE)

\* the request is over: req and res are dropped
RequestEnds ==
  /\ pc = "done"
  /\ pc' = "idle"
  /\ route' = "lemonsqueezy"
  /\ buf' = Bytes("utf8", NoDoc("absent"))
  /\ sig' = Undef
  /\ rawBody' = Undef
  /\ verdict' = "none"
  /\ evt' = Undef
  /\ order' = NoOrder
  /\ notifyCalls' = 0
  /\ mails' = <<>>
  /\ responses' = <<>>
  /\ trace' = <<>>
  /\ uncaught' = FALSE
  /\ UNCHANGED <<env, served>>

Arrive == \E r \in Routes : \E b \in Bodies(r) : \E h \in Headers(r, b) : Receive(r, b, h)

Next ==
  \/ Arrive
  \/ LemonHandler
  \/ NowPaymentsHandler
  \/ OwnerMailResolves
  \/ OwnerMailRejects
  \/ BuyerMailResolves
  \/ BuyerMailRejects
  \/ RequestEnds

Spec == Init /\ [][Next]_vars

\* A smaller universe for the liveness check: one request of every kind
\* of outcome (no body, malformed, not a success event, success with and
\* without a buyer address; header absent, of the wrong length, wrong, right).
LiveEnvs ==
  {e \in Envs : <<e.LEMONSQUEEZY_SIGNING_SECRET, e.NOWPAYMENTS_IPN_SECRET>>
                  \in {<<K1, K2>>, <<Undef, sEmpty>>}}

LiveBodies(r) ==
  {Bytes("utf8", d) :
     d \in {NoDoc("absent"), NoDoc("malformed")} \cup
           {Json(v) : v \in IF r = "lemonsqueezy"
                            THEN {Rec([event |-> sRefunded]),
                                  Rec([event |-> sOrderCreated]),
                                  Rec([event |-> sOrderCreated,
                                       data |-> Rec([attributes |->
                                                 Rec([user_email |-> sBuyer])])])}
                            ELSE {Rec([payment_status |-> sWaiting]),
                                  Rec([payment_status |-> sFinished]),
                                  Rec([payment_status |-> sFinished,
                                       customer_email |-> sBuyer])}}}

LiveHeaders(r, b) ==
  {Undef, OtherHex(Sha256HexLen, "junk", NoHmac), OtherHex(Sha512HexLen, "junk", NoHmac),
   HexDigest(Hmac(AlgOf(r), ProviderKey(r), b))}

LiveInit == Init /\ env \in LiveEnvs

LiveArrive ==
  \E r \in Routes : \E b \in LiveBodies(r) : \E h \in LiveHeaders(r, b) : Receive(r, b, h)

LiveNext ==
  \/ LiveArrive
  \/ LemonHandler
  \/ NowPaymentsHandler
  \/ OwnerMailResolves
  \/ OwnerMailRejects
  \/ BuyerMailResolves
  \/ BuyerMailRejects
  \/ RequestEnds

\* the event loop runs a ready handler, and every mail send settles
FairSpec ==
  /\ LiveInit
  /\ [][LiveNext]_vars
  /\ WF_vars(LemonHandler \/ NowPaymentsHandler)
  /\ WF_vars(OwnerMailResolves \/ OwnerMailRejects
               \/ BuyerMailResolves \/ BuyerMailRejects)

TypeOK ==
  /\ pc \in {"idle", "handler", "awaitOwner", "awaitBuyer", "done"}
  /\ served \in 0..MaxRequests
  /\ verdict \in {"none", "true", "false", "RangeError"}

(* ------------------------- vocabulary of the claims --------------------- *)
ProviderSecret(r) ==
  IF r = "lemonsqueezy" THEN env.LEMONSQUEEZY_SIGNING_SECRET
  ELSE env.NOWPAYMENTS_IPN_SECRET

\* Sign(body, secret) of the provider of route r
ProviderSign(r, bytes) == HexDigest(Hmac(AlgOf(r), ProviderSecret(r), bytes))

InTrace(step) == \E i \in 1..Len(trace) : trace[i] = step
Handled == pc \in {"awaitOwner", "awaitBuyer", "done"}
Count(kind) == Cardinality({i \in 1..Len(mails) : mails[i].kind = kind})

\* the request carries the digest of its captured body under the secret
\* of its own route
Authenticates ==
  /\ Truthy(ProviderSecret(route))
  /\ rawBody # Undef
  /\ sig = ProviderSign(route, Utf8Bytes(rawBody))

\* C1: a request that does not authenticate (header absent or different
\* from the expected digest in value or length, no raw body, no secret) is
\* answered 400, is never parsed, and no mail is attempted.
C1_UnauthenticatedIs400 ==
  (Handled /\ ~Authenticates) =>
     /\ responses = <<400>>
     /\ ~InTrace("parse")
     /\ mails = <<>>
     /\ notifyCalls = 0

\* C2: notifyOrder and every mail are preceded, in the same request, by
\* an accepting verification with the route's own secret and algorithm.
C2_NotifyOnlyAuthenticated ==
  (notifyCalls > 0 \/ mails # <<>> \/ InTrace("parse")) =>
     /\ verdict = "true"
     /\ trace[1] = "verify"
     /\ Truthy(ProviderSecret(route))
     /\ Truthy(rawBody)
     /\ sig = HexDigest(Hmac(IF route = "lemonsqueezy" THEN "sha256" ELSE "sha512",
                             ProviderSecret(route), Utf8Bytes(rawBody)))

C2_Witness ==
  /\ pc = "done"
  /\ route = "nowpayments"
  /\ env.LEMONSQUEEZY_SIGNING_SECRET # env.NOWPAYMENTS_IPN_SECRET
  /\ notifyCalls = 1
  /\ Len(mails) = 2

\* C3: with a non-empty secret and body, the verifier returns true on the
\* header Sign(body, secret) over the exact body bytes, and returns false
\* on every other header and on every other body.
C3_SignVerifyRoundTrip ==
  (Handled /\ Truthy(ProviderSecret(route)) /\ BufLength(buf) > 0 /\ Truthy(sig)) =>
     verdict = IF sig = ProviderSign(route, buf) THEN "true" ELSE "false"

\* C4: a missing input (no raw body, no header, secret unset or empty)
\* makes the verifier reject whatever the other inputs are, and the
\* request is answered 400 without being parsed.
C4_MissingInputRejects ==
  (Handled /\ (~Truthy(rawBody) \/ BufLength(buf) = 0 \/ ~Truthy(sig)
               \/ ~Truthy(ProviderSecret(route)))) =>
     /\ verdict = "false"
     /\ responses = <<400>>
     /\ ~InTrace("parse")
     /\ notifyCalls = 0

C4_Witness ==
  /\ pc = "done"
  /\ ~Truthy(ProviderSecret(route))
  /\ Truthy(rawBody)
  /\ Truthy(sig)
  /\ StrLen(sig) = HexLen(AlgOf(route))
  /\ responses = <<400>>

\* the event name of a LemonSqueezy payload: meta.event_name, or else event
ClaimedName(doc) ==
  IF Truthy(Get(Get(doc, "meta"), "event_name"))
  THEN Get(Get(doc, "meta"), "event_name") ELSE Get(doc, "event")

ClaimedSuccess(r, doc) ==
  IF r = "lemonsqueezy"
  THEN ClaimedName(doc) \in {sOrderCreated, sSubscriptionPaymentSuccess}
  ELSE Get(doc, "payment_status") = sFinished

\* C5: a verified request calls notifyOrder exactly once when its event
\* is a success event and never otherwise; a verified event that is not a
\* success event is answered 200.
C5_OneNotificationPerSuccess ==
  (Handled /\ verdict = "true") =>
     IF buf.doc.kind # "json" THEN notifyCalls = 0
     ELSE IF ClaimedSuccess(route, buf.doc.val) THEN notifyCalls = 1
     ELSE notifyCalls = 0 /\ responses = <<200>> /\ mails = <<>>

C5_Witness ==
  /\ pc = "done"
  /\ route = "lemonsqueezy"
  /\ verdict = "true"
  /\ Get(Get(buf.doc.val, "meta"), "event_name") = sEmpty
  /\ Get(buf.doc.val, "event") = sOrderCreated
  /\ notifyCalls = 1
  /\ responses = <<200>>

\* C6: every request that entered a handler gets exactly one response,
\* 200, 400 or 500, once its mails have settled; nothing leaves the handler
\* uncaught and no request is answered twice.
C6_ExactlyOneResponse ==
  /\ [](/\ ~uncaught
        /\ Len(responses) <= 1
        /\ \A i \in 1..Len(responses) : responses[i] \in {200, 400, 500}
        /\ (pc = "done" <=> Len(responses) = 1))
  /\ (pc = "handler") ~> (pc = "done" /\ Len(responses) = 1)

C6_Witness ==
  /\ pc = "done"
  /\ verdict = "RangeError"
  /\ responses = <<500>>

\* C7: a notification failure of a verified success event is answered 500:
\* no OWNER_EMAIL means no mail at all, a failed owner mail means no buyer
\* mail, a failed buyer mail follows a sent owner mail; nothing is retried.
C7_DispatchFailureIs500 ==
  (pc = "done" /\ notifyCalls = 1) =>
     /\ ~Truthy(env.OWNER_EMAIL) => (responses = <<500>> /\ mails = <<>>)
     /\ (Len(mails) >= 1 /\ mails[1].state = "failed") =>
          (responses = <<500>> /\ Len(mails) = 1)
     /\ (Len(mails) = 2 /\ mails[2].state = "failed") =>
          (responses = <<500>> /\ mails[1].state = "sent")
     /\ responses = <<200>> =>
          (mails # <<>> /\ \A i \in 1..Len(mails) : mails[i].state = "sent")
     /\ Count("owner") <= 1 /\ Count("buyer") <= 1

C7_Witness ==
  /\ pc = "done"
  /\ Len(mails) = 2
  /\ mails[1].state = "sent"
  /\ mails[2].state = "failed"
  /\ responses = <<500>>

\* the position of a step in the pipeline
Rank(step) ==
  CASE step = "verify" -> 1
    [] step = "parse" -> 2
    [] step = "classify" -> 3
    [] step = "extract" -> 4
    [] step = "notify" -> 5
    [] step = "sendOwner" -> 6
    [] step \in {"ownerSent", "ownerFailed"} -> 7
    [] step = "sendBuyer" -> 8
    [] step \in {"buyerSent", "buyerFailed"} -> 9
    [] step = "catch" -> 10
    [] step = "respond" -> 11

\* C8: the steps of a request run in the order verify, parse/classify,
\* extract, owner mail, buyer mail, response; a 200 to a success event
\* comes after every attempted mail was sent, the owner's before the buyer's.
C8_StepsInOrder ==
  /\ \A i, j \in 1..Len(trace) : i < j => Rank(trace[i]) < Rank(trace[j])
  /\ \A i \in 1..Len(mails) : mails[i].kind = IF i = 1 THEN "owner" ELSE "buyer"
  /\ (Len(mails) = 2) => mails[1].state = "sent"
  /\ (responses = <<200>> /\ notifyCalls = 1) =>
        /\ mails # <<>>
        /\ \A i \in 1..Len(mails) : mails[i].state = "sent"
        /\ InTrace("extract")
  /\ (responses # <<>>) => trace[Len(trace)] = "respond"

C8_Witness ==
  /\ pc = "done"
  /\ trace = <<"verify", "parse", "classify", "extract", "notify", "sendOwner",
               "ownerSent", "sendBuyer", "buyerSent", "respond">>
  /\ responses = <<200>>

\* the buyer addresses of the universe that look like an email
ShapedAddresses == {sBuyer, sBuyerSp}

\* C9: a request attempts the buyer confirmation at most once, and does
\* so iff the owner mail was sent, a buyer email is present and has the
\* email shape, and SEND_BUYER_CONFIRMATION is "true"; the owner mail is
\* attempted at most once.
C9_BuyerMailIff ==
  /\ Count("owner") <= 1
  /\ Count("buyer") <= 1
  /\ (pc \in {"awaitBuyer", "done"}) =>
       (Count("buyer") = 1 <=>
          /\ Len(mails) >= 1 /\ mails[1].kind = "owner" /\ mails[1].state = "sent"
          /\ order.buyerEmail \notin {Undef, Null, sEmpty}
          /\ order.buyerEmail \in ShapedAddresses
          /\ env.SEND_BUYER_CONFIRMATION = Str(<<"t","r","u","e">>))

C9_Witness ==
  /\ pc = "done"
  /\ Count("buyer") = 1
  /\ order.buyerEmail = sBuyerSp
  /\ mails[2].state = "sent"

\* C10: a verified success event reaches the notifier whatever optional
\* fields are absent, each absent field replaced by its default.
C10_ExtractionDefaults ==
  (Handled /\ verdict = "true" /\ buf.doc.kind = "json"
     /\ ClaimedSuccess(route, buf.doc.val)) =>
     LET doc == buf.doc.val
         attrs == Get(Get(doc, "data"), "attributes")
         desc == Get(doc, "order_description")
     IN  /\ InTrace("notify")
         /\ notifyCalls = 1
         /\ order.raw = doc
         /\ IF route = "lemonsqueezy"
            THEN /\ Get(attrs, "currency") = Undef => order.currency = sUSD
                 /\ Get(attrs, "currency") = sEUR => order.currency = sEUR
                 /\ Get(attrs, "total") \in {Undef, Null} => order.amount = Num(0)
                 /\ Get(attrs, "total") = Num(5000) => order.amount = Num(50)
                 /\ Get(attrs, "total") = Num(1999) =>
                      order.amount = [t |-> "number", n |-> 1999, d |-> 100]
                 /\ (Get(Get(attrs, "custom"), "websiteType") = Undef
                       /\ Get(Get(Get(doc, "meta"), "custom_data"), "websiteType") = Undef)
                      => order.websiteType = sUnknown
                 /\ (Get(attrs, "user_email") = Undef
                       /\ Get(attrs, "customer_email") = Undef)
                      => order.buyerEmail = Null
            ELSE /\ Get(doc, "price_currency") = Undef => order.currency = sUSD
                 /\ order.amount = Get(doc, "price_amount")
                 /\ desc \in {Undef, Num(7), sDescNoWord, sDescNoToken}
                      => order.websiteType = sUnknown
                 /\ desc = sDescAI => order.websiteType = sAi
                 /\ desc = sDescUpper
                      => order.websiteType = Str(<<"a","i","_","2">>)
                 /\ Get(doc, "customer_email") = Undef => order.buyerEmail = Null

C10_Witness ==
  /\ pc = "awaitOwner"
  /\ route = "lemonsqueezy"
  /\ Get(buf.doc.val, "data") = Undef
  /\ order.currency = sUSD
  /\ order.amount = Num(0)
  /\ order.websiteType = sUnknown
====
